---- MODULE Spec2Model ----
(***************************************************************************)
(* tdxhost: the `ok` subcommand.  main -> run_all_checks -> run_test over  *)
(* the required forest, then over the optional forest (src/src/ok.rs).     *)
(*                                                                         *)
(* Text (String) is a sequence of fragments: a literal is a one-element    *)
(* sequence, format!/concatenation is \o, String::new() is << >>.          *)
(* A 64-bit MSR value is the set of its set bits (bit 0 = LSB).            *)
(* The host does not change during a run: a signal that is read twice      *)
(* yields the same value both times (variable host keeps what was read).   *)
(***************************************************************************)
EXTENDS Integers, Sequences, FiniteSets, TLC

VARIABLES
    host,                   \* host signals observed so far: signal -> value
    phase,                  \* position in main / run_all_checks
    stack,                  \* run_test activations, innermost last
    pc,                     \* position inside the body of run_test's for loop
    res,                    \* `res` of the innermost run_test loop body
    out,                    \* everything done so far that is visible outside
    required_tests_passed,  \* the local of run_all_checks: << >> until it is bound, then <<b>>
    exit_code               \* process exit status, -1 while running

vars == <<host, phase, stack, pc, res, out, required_tests_passed, exit_code>>

(*************************** enums (ok.rs 6-56) ****************************)
TestState == {"OK", "FAIL", "WARNING", "TBD", "SKIP"}
TestOptionalState == {"Required", "Optional"}
TestOperationState == {"Manual", "Program"}
KvmParameter == {"Tdx", "Sgx"}

\* TestResult::default(): the #[default] variants and empty strings
DefaultTestResult ==
    [action |-> << >>, reason |-> << >>, state |-> "FAIL",
     optional_state |-> "Required", operation |-> "Program"]

(**************************** test names ***********************************)
CpuManuId == "Check CPU Manufacturer ID"
OsDistro == "Check OS distro"
SgxEnabled == "Check SGX enabled"
TdxEnabled == "Check TDX enabled"
TdxModule == "Check TDX module initialized"
TmeEnabled == "Check TME enabled"
TmeMt == "Check TME-MT/TME-MK enabled"
TdxKeySplit == "Check TDX Key Split != 0"
SgxRegServer == "Check SGX registration server"
KvmSupported == "Check KVM is supported"
KvmSgxMod == "Check KVM SGX parameter enabled"
KvmTdxMod == "Check KVM TDX parameter enabled"
BiosMemMap == "Volatile Memory should be 1LM"
BiosTmeBypass == "TME Bypass is enabled"
BiosSeamLoader == "SEAM Loader is enabled"

\* the top-level tests of the two forests, in vec![] order
get_required_tests == <<CpuManuId, KvmSupported>>
get_optional_tests == <<BiosMemMap, BiosTmeBypass, BiosSeamLoader>>

\* the forest with tdx_enabled_test left out of sgx_enabled_test.sub_tests
sub_tests_unlinked(t) ==
    CASE t = CpuManuId -> <<OsDistro>>
      [] t = OsDistro -> <<SgxEnabled>>
      [] t = TdxEnabled -> <<TdxModule, TmeEnabled, TmeMt, TdxKeySplit, SgxRegServer>>
      [] t = KvmSupported -> <<KvmSgxMod, KvmTdxMod>>
      [] OTHER -> << >>

\* Test.sub_tests
sub_tests(t) ==
    CASE t = CpuManuId -> <<OsDistro>>
      [] t = OsDistro -> <<SgxEnabled>>
      [] t = SgxEnabled -> <<TdxEnabled>>
      [] t = TdxEnabled -> <<TdxModule, TmeEnabled, TmeMt, TdxKeySplit, SgxRegServer>>
      [] t = KvmSupported -> <<KvmSgxMod, KvmTdxMod>>
      [] OTHER -> << >>

\* Test.post_run is Some(..)
has_post_run(t) == t \in {OsDistro, TmeMt, SgxRegServer, BiosMemMap, BiosTmeBypass}

RequiredNodes ==
    {CpuManuId, OsDistro, SgxEnabled, TdxEnabled, TdxModule, TmeEnabled, TmeMt,
     TdxKeySplit, SgxRegServer, KvmSupported, KvmSgxMod, KvmTdxMod}
OptionalNodes == {BiosMemMap, BiosTmeBypass, BiosSeamLoader}
Nodes == RequiredNodes \cup OptionalNodes

(**************************** host signals *********************************)
Cpuid == "cpuid leaf 0"
OsRelease == "/etc/os-release"
Dmesg == "sudo dmesg"
DevKvm == "/dev/kvm"
ParamTdx == "/sys/module/kvm_intel/parameters/tdx"
ParamSgx == "/sys/module/kvm_intel/parameters/sgx"
Msr3a == "msr 0x3a"
Msr1401 == "msr 0x1401"
Msr982 == "msr 0x982"
Msr981 == "msr 0x981"
MsrCe == "msr 0xce"

SUPPORTED_OSES ==
    <<"Ubuntu 22.04.1 LTS", "Red Hat Enterprise Linux 8.7 (Ootpa)", "CentOS Stream 9">>

\* a line of /etc/os-release: KEY=value or KEY="value"
OsLine(k, q, v) == [key |-> k, quoted |-> q, value |-> v]
OsFile(pretty) ==
    [exists |-> TRUE,
     lines |-> <<OsLine("NAME", TRUE, "Linux"), OsLine("PRETTY_NAME", TRUE, pretty)>>]

MsrOk(bits) == [ok |-> TRUE, bits |-> bits]
MsrErr == [ok |-> FALSE, bits |-> {}]

ParamFile(c) == [exists |-> TRUE, readable |-> TRUE, content |-> c]

\* the values a read of each signal can produce
Values(sig) ==
    CASE sig = Cpuid -> {"GenuineIntel", "AuthenticAMD"}
      [] sig = OsRelease ->
            {[exists |-> FALSE, lines |-> << >>],
             [exists |-> TRUE, lines |-> <<OsLine("NAME", TRUE, "Linux")>>],
             [exists |-> TRUE, lines |-> <<OsLine("PRETTY_NAME", FALSE, "Linux")>>]}
            \cup {OsFile(SUPPORTED_OSES[i]) : i \in 1..Len(SUPPORTED_OSES)}
            \cup {OsFile("Fedora Linux 38"), OsFile("Ubuntu 22.04.1 LTS (Jammy)")}
      [] sig = Dmesg ->
            {[ran |-> FALSE, utf8 |-> TRUE, initialized |-> FALSE],
             [ran |-> TRUE, utf8 |-> FALSE, initialized |-> FALSE],
             [ran |-> TRUE, utf8 |-> TRUE, initialized |-> FALSE],
             [ran |-> TRUE, utf8 |-> TRUE, initialized |-> TRUE]}
      [] sig = DevKvm -> {"open error", "ioctl negative", "ioctl ok"}
      [] sig \in {ParamTdx, ParamSgx} ->
            {[exists |-> FALSE, readable |-> FALSE, content |-> << >>],
             [exists |-> TRUE, readable |-> FALSE, content |-> << >>],
             ParamFile(<<"Y", "\n">>), ParamFile(<<"1", "\n">>),
             ParamFile(<<"N", "\n">>), ParamFile(<<" ", "0">>)}
      [] sig = Msr3a -> {MsrErr, MsrOk({}), MsrOk({18})}
      [] sig = Msr1401 -> {MsrErr, MsrOk({}), MsrOk({11})}
      [] sig = Msr982 -> {MsrErr, MsrOk({}), MsrOk({1}), MsrOk({31}), MsrOk({1, 31})}
      [] sig = Msr981 -> {MsrErr, MsrOk({}), MsrOk({35}), MsrOk({36}), MsrOk({50}), MsrOk({51})}
      [] sig = MsrCe -> {MsrErr, MsrOk({}), MsrOk({27})}


Nothing == "nothing"    \* a closure that reads no host signal

\* the value v is what a read of signal sig returns in this run
Observe(sig, v) ==
    IF sig = Nothing THEN host' = host
    ELSE IF sig \in DOMAIN host THEN host[sig] = v /\ host' = host
    ELSE host' = (sig :> v) @@ host

Readable(sig) == IF sig = Nothing THEN {"none"} ELSE Values(sig)

(**************************** probes (ok.rs 71-184) ************************)
Returned(v) == [panic |-> FALSE, val |-> v]
Panicked(v) == [panic |-> TRUE, val |-> v]

SetMin(S) == CHOOSE x \in S : \A y \in S : x <= y

\* get_os_pretty_name: three expect()s, then the text between the quotes
get_os_pretty_name(f) ==
    IF ~f.exists THEN Panicked("")
    ELSE LET found == {i \in 1..Len(f.lines) : f.lines[i].key = "PRETTY_NAME"} IN
         IF found = {} THEN Panicked("")
         ELSE LET l == f.lines[SetMin(found)] IN
              IF ~l.quoted THEN Panicked("") ELSE Returned(l.value)

\* the for_each of check_os: `supported = o == pretty_name` for each entry in turn
RECURSIVE for_each_supported(_, _, _)
for_each_supported(i, supported, pretty_name) ==
    IF i > Len(SUPPORTED_OSES) THEN supported
    ELSE for_each_supported(i + 1, SUPPORTED_OSES[i] = pretty_name, pretty_name)

check_os(f) ==
    LET p == get_os_pretty_name(f) IN
    IF p.panic THEN Panicked(FALSE)
    ELSE Returned(for_each_supported(1, FALSE, p.val))

check_tdx_module(d) ==
    IF ~d.ran \/ ~d.utf8 THEN Panicked(FALSE) ELSE Returned(d.initialized)

\* Msr::new(reg, 0).unwrap().read().unwrap()
msr_read(m) == IF m.ok THEN Returned(m.bits) ELSE Panicked({})

check_bios_tme_bypass(m) ==
    LET r == msr_read(m) IN
    IF r.panic THEN Panicked(FALSE) ELSE Returned(31 \in r.val)

check_kvm_supported(k) ==
    CASE k = "ioctl ok" -> [state |-> "OK", reason |-> << >>]
      [] k = "ioctl negative" ->
            [state |-> "FAIL",
             reason |-> <<"KVM device node (/dev/kvm) should be accessible">>]
      [] OTHER ->
            [state |-> "FAIL",
             reason |-> <<"Unable to read KVM device node file (/dev/kvm)">>]

IsSpace(c) == c \in {" ", "\n", "\t"}

\* str::trim
RECURSIVE trim(_)
trim(s) ==
    IF s = << >> THEN s
    ELSE IF IsSpace(Head(s)) THEN trim(Tail(s))
    ELSE IF IsSpace(s[Len(s)]) THEN trim(SubSeq(s, 1, Len(s) - 1))
    ELSE s

param_loc(param) == IF param = "Tdx" THEN ParamTdx ELSE ParamSgx
param_leaf(param) == IF param = "Tdx" THEN "tdx" ELSE "sgx"

check_kvm_module_supported(param, f) ==
    LET rr == IF f.exists
              THEN IF f.readable
                   THEN IF trim(f.content) = <<"1">> \/ trim(f.content) = <<"Y">>
                        THEN <<"OK", << >> >>
                        ELSE <<"FAIL",
                               <<"Parameter file (", param_loc(param),
                                 ") contains invalid value: ">> \o f.content>>
                   ELSE <<"FAIL", <<"Unable to read parameter file: ", "io error">> >>
              ELSE <<"FAIL", <<"Provided parameter does not exist: ", param_loc(param)>> >>
    IN [state |-> rr[1],
        action |-> <<"Check /sys/module/kvm_intel/parameters/", param_leaf(param),
                     " = Y (required)">>,
        reason |-> rr[2]]


(**************************** the tests' closures **************************)
TestResult(action, reason, state, optional_state, operation) ==
    [action |-> action, reason |-> reason, state |-> state,
     optional_state |-> optional_state, operation |-> operation]

OkOrFail(b) == IF b THEN "OK" ELSE "FAIL"

\* the host signal a test's run closure reads
run_reads(t) ==
    CASE t = CpuManuId -> Cpuid
      [] t = OsDistro -> OsRelease
      [] t = SgxEnabled -> Msr3a
      [] t = TdxEnabled -> Msr1401
      [] t = TdxModule -> Dmesg
      [] t \in {TmeEnabled, TmeMt, BiosTmeBypass} -> Msr982
      [] t = TdxKeySplit -> Msr981
      [] t = KvmSupported -> DevKvm
      [] t = KvmSgxMod -> ParamSgx
      [] t = KvmTdxMod -> ParamTdx
      [] OTHER -> Nothing

\* as run_calls, with the OS closure reading the pretty name itself before check_os
run_calls_reread(t) ==
    CASE t = CpuManuId -> <<"check_cpu_manufacturer_id">>
      [] t = OsDistro -> <<"get_os_pretty_name", "check_os", "get_os_pretty_name">>
      [] t = SgxEnabled -> <<"Msr::read(0x3a)">>
      [] t = TdxEnabled -> <<"Msr::read(0x1401)">>
      [] t = TdxModule -> <<"check_tdx_module">>
      [] t \in {TmeEnabled, TmeMt} -> <<"Msr::read(0x982)">>
      [] t = BiosTmeBypass -> <<"check_bios_tme_bypass", "Msr::read(0x982)">>
      [] t = TdxKeySplit -> <<"Msr::read(0x981)">>
      [] t = KvmSupported -> <<"check_kvm_supported">>
      [] t = KvmSgxMod -> <<"check_kvm_module_supported(Sgx)">>
      [] t = KvmTdxMod -> <<"check_kvm_module_supported(Tdx)">>
      [] OTHER -> << >>

\* the probe functions a test's run closure calls, in call order
run_calls(t) ==
    CASE t = CpuManuId -> <<"check_cpu_manufacturer_id">>
      [] t = OsDistro -> <<"check_os", "get_os_pretty_name">>
      [] t = SgxEnabled -> <<"Msr::read(0x3a)">>
      [] t = TdxEnabled -> <<"Msr::read(0x1401)">>
      [] t = TdxModule -> <<"check_tdx_module">>
      [] t \in {TmeEnabled, TmeMt} -> <<"Msr::read(0x982)">>
      [] t = BiosTmeBypass -> <<"check_bios_tme_bypass", "Msr::read(0x982)">>
      [] t = TdxKeySplit -> <<"Msr::read(0x981)">>
      [] t = KvmSupported -> <<"check_kvm_supported">>
      [] t = KvmSgxMod -> <<"check_kvm_module_supported(Sgx)">>
      [] t = KvmTdxMod -> <<"check_kvm_module_supported(Tdx)">>
      [] OTHER -> << >>

\* bits 36..50: 0x7fff << 36
KeySplitMask == 36..50

\* msr_test with the bit test dropped: the state is pass_state whatever was read
msr_test_no_check(m, pass, action, reason, pass_state, operation) ==
    LET r == msr_read(m) IN
    IF r.panic THEN Panicked(DefaultTestResult)
    ELSE Returned(TestResult(action, reason, pass_state, "Required", operation))

\* run closure of a test whose state is one bit (or a mask) of an MSR
msr_test(m, pass, action, reason, pass_state, operation) ==
    LET r == msr_read(m) IN
    IF r.panic THEN Panicked(DefaultTestResult)
    ELSE Returned(TestResult(action, reason,
                             IF r.val \cap pass # {} THEN pass_state ELSE "FAIL",
                             "Required", operation))

\* (t.run)() when the signal the closure reads has value v
run(t, v) ==
    CASE t = CpuManuId ->
            Returned(TestResult(<<"Check CPUID 0x0 Manufacturer ID = GenuineIntel">>,
                                <<"The CPUID Manufacturer ID should be GenuineIntel">>,
                                OkOrFail(v = "GenuineIntel"), "Required", "Program"))
      [] t = OsDistro ->
            LET supported == check_os(v) IN
            IF supported.panic THEN Panicked(DefaultTestResult)
            ELSE Returned(TestResult(<<"Check OS: The distro and version are correct">>,
                                     <<"Your OS distro is not supported yet.">>,
                                     OkOrFail(supported.val), "Required", "Program"))
      [] t = SgxEnabled ->
            msr_test(v, {18}, <<"Check BIOS: SGX = Enabled">>,
                     <<"The bit 18 of MSR 0x3a should be 1">>, "OK", "Program")
      [] t = TdxEnabled ->
            msr_test(v, {11}, <<"Check BIOS: TDX = Enabled">>,
                     <<"The bit 11 of MSR 0x1401 should be 1">>, "OK", "Program")
      [] t = TdxModule ->
            LET module_initialized == check_tdx_module(v) IN
            IF module_initialized.panic THEN Panicked(DefaultTestResult)
            ELSE Returned(TestResult(<<"Check TDX Module: The module is initialized">>,
                                     <<"TDX module is required">>,
                                     OkOrFail(module_initialized.val),
                                     "Required", "Program"))
      [] t = TmeEnabled ->
            msr_test(v, {1}, <<"Check BIOS: TME = Enabled">>,
                     <<"The bit 1 of MSR 0x982 should be 1.">>, "OK", "Program")
      [] t = TmeMt ->
            msr_test(v, {1}, <<"Check BIOS: TME-MT/TME-MK = Enabled">>,
                     <<"The bit 1 of MSR 0x982 should be 1.">>, "TBD", "Manual")
      [] t = TdxKeySplit ->
            msr_test(v, KeySplitMask, <<"Check BIOS: TDX Key Split != 0">>,
                     <<"TDX Key Split should be non-zero">>, "OK", "Program")
      [] t = SgxRegServer ->
            Returned(TestResult(<<"Check BIOS: SGX registration server">>, << >>,
                                "TBD", "Required", "Manual"))
      [] t = KvmSupported ->
            LET k == check_kvm_supported(v) IN
            Returned(TestResult(<<"Check KVM is supported">>, k.reason, k.state,
                                "Required", "Program"))
      [] t = KvmSgxMod ->
            LET k == check_kvm_module_supported("Sgx", v) IN
            Returned(TestResult(k.action, k.reason, k.state, "Required", "Program"))
      [] t = KvmTdxMod ->
            LET k == check_kvm_module_supported("Tdx", v) IN
            Returned(TestResult(k.action, k.reason, k.state, "Required", "Program"))
      [] t = BiosMemMap ->
            Returned(TestResult(<<"Check BIOS: Volatile Memory should be 1LM">>, << >>,
                                "TBD", "Optional", "Manual"))
      [] t = BiosTmeBypass ->
            LET b == check_bios_tme_bypass(v) IN
            IF b.panic THEN Panicked(DefaultTestResult)
            ELSE Returned(TestResult(<<"Check BIOS: TME Bypass = Enabled">>,
                                     <<"The bit 31 of MSR 0x982 should be 1">>,
                                     OkOrFail(b.val), "Optional", "Program"))
      [] t = BiosSeamLoader ->
            Returned(TestResult(<<"Check BIOS: SEAM Loader = Enabled">>, << >>,
                                "TBD", "Optional", "Manual"))

\* the host signal a test's post_run closure reads
post_run_reads(t) ==
    CASE t = OsDistro -> OsRelease
      [] t = SgxRegServer -> MsrCe
      [] t = BiosTmeBypass -> Msr982
      [] OTHER -> Nothing

\* the probe functions a test's post_run closure calls
post_run_calls(t) ==
    CASE t = OsDistro -> <<"get_os_pretty_name">>
      [] t = SgxRegServer -> <<"Msr::read(0xce)">>
      [] t = BiosTmeBypass -> <<"check_bios_tme_bypass", "Msr::read(0x982)">>
      [] OTHER -> << >>

\* (f)() for t.post_run = Some(f): the first line it prints, or a panic
post_run(t, v) ==
    CASE t = OsDistro ->
            LET pretty_name == get_os_pretty_name(v) IN
            IF pretty_name.panic THEN Panicked(<< >>)
            ELSE Returned(<<"Your current OS is: ", pretty_name.val>>)
      [] t = SgxRegServer ->
            LET r == msr_read(v) IN
            IF r.panic THEN Panicked(<< >>)
            ELSE Returned(IF 27 \in r.val THEN <<"SGX registration server is SBX">>
                          ELSE <<"SGX registration server is LIV">>)
      [] t = BiosTmeBypass ->
            LET b == check_bios_tme_bypass(v) IN
            IF b.panic THEN Panicked(<< >>)
            ELSE Returned(IF ~b.val THEN <<"The TME Bypass has not been enabled now.">>
                          ELSE <<"It's better to enable TME Bypass for traditional non-confidential workloads.">>)
      [] OTHER -> Returned(<<"Please check your BIOS settings:">>)


(**************************** reporter (ok.rs 186-225, 274-285) ************)
\* one entry of out
Event(kind, node) ==
    [kind |-> kind, node |-> node, fn |-> "", state |-> "", color |-> "",
     action |-> << >>, reason |-> << >>, reason_color |-> "",
     optional_state |-> "", operation |-> ""]

Called(node, fns) == [i \in 1..Len(fns) |-> [Event("call", node) EXCEPT !.fn = fns[i]]]

\* the colour policy without the `if let TestState::Fail` inside the Manual arm
report_color_manual_yellow(result) ==
    IF result.operation = "Manual" \/ result.state = "TBD"
          \/ result.optional_state = "Optional"
    THEN "yellow" ELSE "red"

\* `color` in the `_` arm of report_result
report_color(result) ==
    LET c0 == "red"
        c1 == IF result.optional_state = "Optional" THEN "yellow" ELSE c0
        c2 == IF result.state = "TBD" THEN "yellow" ELSE c1
    IN IF result.operation = "Manual"
       THEN IF result.state = "FAIL" THEN "red" ELSE "yellow"
       ELSE c2

\* result.reason after report_result (it takes &mut TestResult)
report_reason(result) ==
    IF result.state \notin {"OK", "WARNING"} /\ result.operation = "Manual"
    THEN <<"Unable to check in program. Please check manually.">>
    ELSE result.reason

\* report_result: the mutated result and what was printed for test t
\* (line.reason is the text of the Reason line, << >> when none is printed)
report_result(t, result) ==
    LET after == [result EXCEPT !.reason = report_reason(result)]
        base == [Event("report", t) EXCEPT !.state = result.state,
                                          !.action = result.action,
                                          !.optional_state = result.optional_state,
                                          !.operation = result.operation]
    IN [result |-> after,
        line |->
          CASE result.state = "OK" -> [base EXCEPT !.color = "green"]
            [] result.state = "WARNING" ->
                  [base EXCEPT !.color = "magenta", !.reason = result.reason,
                               !.reason_color = IF result.reason # << >>
                                                THEN "yellow" ELSE ""]
            [] OTHER ->
                  [base EXCEPT !.color = report_color(result), !.reason = after.reason,
                               !.reason_color = IF after.reason # << >>
                                                THEN report_color(result) ELSE ""]]

\* report_skip_result without its recursive call: only the direct sub-tests get a line
report_skip_result_flat(tests) ==
    [i \in 1..Len(tests) |->
        [Event("skip", tests[i]) EXCEPT !.state = "SKIP", !.color = "yellow",
                                       !.action = <<tests[i]>>]]

\* report_skip_result: the SKIP lines of tests and of everything below them
RECURSIVE report_skip_result(_)
report_skip_result(tests) ==
    IF tests = << >> THEN << >>
    ELSE LET t == Head(tests) IN
         <<[Event("skip", t) EXCEPT !.state = "SKIP", !.color = "yellow",
                                    !.action = <<t>>]>>
         \o report_skip_result(sub_tests(t))
         \o report_skip_result(Tail(tests))

(**************************** run_test (ok.rs 246-272) *********************)
Frame(tests) == [tests |-> tests, i |-> 1, passed |-> TRUE]

Top == stack[Len(stack)]
InLoop == phase \in {"required", "optional"} /\ stack # << >> /\ Top.i <= Len(Top.tests)
Current == Top.tests[Top.i]

SetTop(f) == [stack EXCEPT ![Len(stack)] = f]
NextTest(passed) == SetTop([Top EXCEPT !.i = @ + 1, !.passed = passed])

\* a panic unwinds main: nothing catches it
Panic(events) ==
    /\ out' = out \o events
    /\ phase' = "panicked"
    /\ exit_code' = 101
    /\ UNCHANGED <<stack, pc, res, required_tests_passed>>

\* `passed` of the loop after the match on res.state, without the callee's result
passed_after_match(passed, state) == IF state = "FAIL" THEN FALSE ELSE passed

\* the result of the recursive run_test dropped
passed_ignoring_sub_tests(passed, ret) == passed

\* `if !run_test(&t.sub_tests) { passed = false; }`
passed_after_sub_tests(passed, ret) == IF ~ret THEN FALSE ELSE passed

\* let mut res = (t.run)();
Run ==
    /\ InLoop /\ pc = "run"
    /\ \E v \in Readable(run_reads(Current)) :
          /\ Observe(run_reads(Current), v)
          /\ LET r == run(Current, v)
                 events == <<Event("run", Current)>> \o Called(Current, run_calls(Current))
             IN IF r.panic THEN Panic(events)
                ELSE /\ res' = r.val
                     /\ out' = out \o events
                     /\ pc' = "report"
                     /\ UNCHANGED <<phase, stack, required_tests_passed, exit_code>>

\* report_result(&mut res);
Report ==
    /\ InLoop /\ pc = "report"
    /\ LET rr == report_result(Current, res) IN
          /\ res' = rr.result
          /\ out' = Append(out, rr.line)
    /\ pc' = "post_run"
    /\ UNCHANGED <<host, phase, stack, required_tests_passed, exit_code>>

\* post_run invoked only when the result is a FAIL
PostRun_only_on_fail ==
    /\ InLoop /\ pc = "post_run"
    /\ IF has_post_run(Current) /\ res.state = "FAIL"
       THEN \E v \in Readable(post_run_reads(Current)) :
              /\ Observe(post_run_reads(Current), v)
              /\ LET r == post_run(Current, v)
                     events == <<Event("post_run", Current)>>
                               \o Called(Current, post_run_calls(Current))
                 IN IF r.panic THEN Panic(events)
                    ELSE /\ out' = out \o events
                         /\ pc' = "match"
                         /\ UNCHANGED <<phase, stack, res, required_tests_passed,
                                        exit_code>>
       ELSE /\ pc' = "match"
            /\ UNCHANGED <<host, phase, stack, res, out, required_tests_passed,
                           exit_code>>

\* if let Some(f) = &t.post_run { (f)(); }
PostRun ==
    /\ InLoop /\ pc = "post_run"
    /\ IF has_post_run(Current)
       THEN \E v \in Readable(post_run_reads(Current)) :
              /\ Observe(post_run_reads(Current), v)
              /\ LET r == post_run(Current, v)
                     events == <<Event("post_run", Current)>>
                               \o Called(Current, post_run_calls(Current))
                 IN IF r.panic THEN Panic(events)
                    ELSE /\ out' = out \o events
                         /\ pc' = "match"
                         /\ UNCHANGED <<phase, stack, res, required_tests_passed,
                                        exit_code>>
       ELSE /\ pc' = "match"
            /\ UNCHANGED <<host, phase, stack, res, out, required_tests_passed,
                           exit_code>>

\* match res.state { Ok => run_test(&t.sub_tests) .. }: the call
MatchOk ==
    /\ InLoop /\ pc = "match" /\ res.state = "OK"
    /\ stack' = Append(stack, Frame(sub_tests(Current)))
    /\ pc' = "run"
    /\ res' = DefaultTestResult
    /\ UNCHANGED <<host, phase, out, required_tests_passed, exit_code>>

\* the Fail arm leaving the for loop (a `break` after report_skip_result)
MatchFail_break ==
    /\ InLoop /\ pc = "match" /\ res.state = "FAIL"
    /\ out' = out \o report_skip_result(sub_tests(Current))
    /\ stack' = SetTop([Top EXCEPT !.i = Len(Top.tests) + 1, !.passed = FALSE])
    /\ pc' = "run"
    /\ res' = DefaultTestResult
    /\ UNCHANGED <<host, phase, required_tests_passed, exit_code>>

\* match res.state { Fail => { passed = false; report_skip_result(..) } }
MatchFail ==
    /\ InLoop /\ pc = "match" /\ res.state = "FAIL"
    /\ out' = out \o report_skip_result(sub_tests(Current))
    /\ stack' = NextTest(passed_after_match(Top.passed, res.state))
    /\ pc' = "run"
    /\ res' = DefaultTestResult
    /\ UNCHANGED <<host, phase, required_tests_passed, exit_code>>

\* match res.state { Tbd => {} Skip => {} Warning => {} }
MatchOther ==
    /\ InLoop /\ pc = "match" /\ res.state \in {"TBD", "SKIP", "WARNING"}
    /\ stack' = NextTest(passed_after_match(Top.passed, res.state))
    /\ pc' = "run"
    /\ res' = DefaultTestResult
    /\ UNCHANGED <<host, phase, out, required_tests_passed, exit_code>>

\* the for loop is over and run_test returns `passed` to the run_test that called it
ReturnSubTests ==
    /\ phase \in {"required", "optional"} /\ pc = "run"
    /\ Len(stack) > 1 /\ Top.i > Len(Top.tests)
    /\ LET caller == stack[Len(stack) - 1] IN
          stack' = Append(SubSeq(stack, 1, Len(stack) - 2),
                          [caller EXCEPT !.i = @ + 1,
                                         !.passed = passed_after_sub_tests(@, Top.passed)])
    /\ UNCHANGED <<host, phase, pc, res, out, required_tests_passed, exit_code>>

(**************************** run_all_checks (ok.rs 227-244) ***************)
\* main calls run_all_checks: headers, get_required_tests(), run_test(..)
StartRequired ==
    /\ phase = "main"
    /\ phase' = "required"
    /\ stack' = <<Frame(get_required_tests)>>
    /\ pc' = "run"
    /\ out' = Append(out, Event("header", "Required Features & Settings"))
    /\ UNCHANGED <<host, res, required_tests_passed, exit_code>>

\* let required_tests_passed = run_test(&required_tests); headers;
\* get_optional_tests(); run_test(..)
StartOptional ==
    /\ phase = "required" /\ pc = "run"
    /\ Len(stack) = 1 /\ Top.i > Len(Top.tests)
    /\ required_tests_passed' = <<Top.passed>>
    /\ phase' = "optional"
    /\ stack' = <<Frame(get_optional_tests)>>
    /\ out' = Append(out, Event("header", "Optional Features & Settings"))
    /\ UNCHANGED <<host, pc, res, exit_code>>

\* what run_all_checks returns
run_all_checks_result(required_passed) == IF ~required_passed THEN "Err" ELSE "Ok"

\* main (main.rs 19-25) is declared `fn main()`: its return type is (), so the
\* value of run_all_checks() cannot become the exit status; a main that returns
\* exits with status 0
main_exit_status(result) == 0

\* let _ = run_test(&optional_tests); run_all_checks returns; main returns
Finish ==
    /\ phase = "optional" /\ pc = "run"
    /\ Len(stack) = 1 /\ Top.i > Len(Top.tests)
    /\ out' = Append(out, [Event("return", "run_all_checks") EXCEPT
                              !.state = run_all_checks_result(required_tests_passed[1])])
    /\ exit_code' = main_exit_status(run_all_checks_result(required_tests_passed[1]))
    /\ phase' = "exited"
    /\ stack' = << >>
    /\ UNCHANGED <<host, pc, res, required_tests_passed>>

Init ==
    /\ host = << >>
    /\ phase = "main"
    /\ stack = << >>
    /\ pc = "run"
    /\ res = DefaultTestResult
    /\ out = << >>
    /\ required_tests_passed = << >>
    /\ exit_code = -1

Next ==
    \/ StartRequired
    \/ Run
    \/ Report
    \/ PostRun
    \/ MatchOk
    \/ MatchFail
    \/ MatchOther
    \/ ReturnSubTests
    \/ StartOptional
    \/ Finish

Spec == Init /\ [][Next]_vars


(***************************************************************************)
(* Reading out: what has happened to a test so far.                        *)
(***************************************************************************)
Lines(kind, n) == {i \in 1..Len(out) : out[i].kind = kind /\ out[i].node = n}
Evaluated(n) == Lines("run", n) # {}
Reported(n) == Lines("report", n) # {}
Skipped(n) == Lines("skip", n) # {}
Outcome(n, state) == \E i \in Lines("report", n) : out[i].state = state

\* the run is inside the loop body of test n, after its run closure returned
InBody(n) ==
    /\ stack # << >> /\ Top.i <= Len(Top.tests) /\ Current = n
    /\ pc \in {"report", "post_run", "match"}

\* the match on n's result has been executed
Matched(n) == Reported(n) /\ ~InBody(n)

RECURSIVE Below(_)
Below(tests) ==
    IF tests = << >> THEN {}
    ELSE {Head(tests)} \cup Below(sub_tests(Head(tests))) \cup Below(Tail(tests))

Descendants(n) == Below(sub_tests(n))

Ended == phase \in {"exited", "panicked"}

(***************************************************************************)
(* C1. Short-circuit on failure: when the run closure of a test n yields   *)
(* FAIL, no test below n (at any depth) is ever evaluated, reported by     *)
(* report_result or given its post_run, and once the match on n's result   *)
(* has run every test below n has exactly one SKIP line carrying its name. *)
(***************************************************************************)
C1_ShortCircuit ==
    \A n \in Nodes :
        Outcome(n, "FAIL") =>
            \A d \in Descendants(n) :
                /\ ~Evaluated(d)
                /\ ~Reported(d)
                /\ Lines("post_run", d) = {}
                /\ Lines("call", d) = {}
                /\ Matched(n) =>
                      /\ Cardinality(Lines("skip", d)) = 1
                      /\ \A i \in Lines("skip", d) :
                            out[i].state = "SKIP" /\ out[i].action = <<d>>

\* CPU vendor failed and the skip reached the bottom of its tree
C1_Witness ==
    /\ Outcome(CpuManuId, "FAIL") /\ Matched(CpuManuId)
    /\ Skipped(OsDistro) /\ Skipped(TdxEnabled) /\ Skipped(SgxRegServer)

(***************************************************************************)
(* C2. Aggregate verdict: once run_test on the required forest has         *)
(* returned, required_tests_passed is false exactly when some test of the  *)
(* required forest that is Required and Program (automatic) was reported   *)
(* FAIL; and what run_all_checks returns is Err exactly in that case,      *)
(* whatever the optional forest produced.                                  *)
(***************************************************************************)
RequiredAutomaticFail ==
    \E n \in RequiredNodes : \E i \in Lines("report", n) :
        /\ out[i].state = "FAIL"
        /\ out[i].optional_state = "Required"
        /\ out[i].operation = "Program"

C2_Aggregate ==
    /\ required_tests_passed # << >> =>
          (required_tests_passed = <<FALSE>> <=> RequiredAutomaticFail)
    /\ \A i \in Lines("return", "run_all_checks") :
          (out[i].state = "Err" <=> RequiredAutomaticFail)

\* the Manual test TME-MT failed, the optional TME Bypass passed, the run returned
C2_Witness ==
    /\ phase = "exited"
    /\ required_tests_passed = <<FALSE>>
    /\ Outcome(TmeMt, "FAIL")
    /\ Outcome(BiosTmeBypass, "OK")


(***************************************************************************)
(* C3 as claimed. Manual tests are always Indeterminate: every result      *)
(* reported with operation Manual has state TBD.                           *)
(***************************************************************************)
C3_ManualAlwaysTbd ==
    \A n \in Nodes : \A i \in Lines("report", n) :
        out[i].operation = "Manual" => out[i].state = "TBD"

ManualNodes == {BiosMemMap, BiosSeamLoader, SgxRegServer, TmeMt}

(***************************************************************************)
(* C3 as amended. The Manual tests are BIOS memory map, SEAM loader, SGX   *)
(* registration server and TME-MT; none of them ever yields OK; the first  *)
(* three always yield TBD; TME-MT yields TBD when bit 1 of MSR 0x982 is    *)
(* set and FAIL when it is clear.                                          *)
(***************************************************************************)
C3_ManualNeverOk ==
    \A n \in Nodes : \A i \in Lines("report", n) :
        /\ out[i].operation = "Manual" <=> n \in ManualNodes
        /\ n \in ManualNodes \ {TmeMt} => out[i].state = "TBD"
        /\ n = TmeMt =>
              /\ 1 \in host[Msr982].bits => out[i].state = "TBD"
              /\ 1 \notin host[Msr982].bits => out[i].state = "FAIL"

\* TME-MT was evaluated with bit 1 of MSR 0x982 clear and reported FAIL
C3_Witness ==
    /\ Outcome(TmeMt, "FAIL")
    /\ 1 \notin host[Msr982].bits

(***************************************************************************)
(* C4. Exit status reflects the required forest: when main returns, the    *)
(* exit status is non-zero exactly when a required check failed            *)
(* (required_tests_passed is false, run_all_checks returned Err).          *)
(***************************************************************************)
C4_ExitStatus ==
    phase = "exited" => (exit_code # 0 <=> required_tests_passed = <<FALSE>>)

\* the run was aborted by a panic inside get_os_pretty_name (/etc/os-release
\* missing or without a quoted PRETTY_NAME): the unsupported-host abort
OsReleaseAbort ==
    phase = "panicked" /\ out # << >> /\ out[Len(out)].fn = "get_os_pretty_name"

(***************************************************************************)
(* C5. Probe failures are contained: apart from an unusable                *)
(* /etc/os-release, no failed observation (MSR, dmesg, /dev/kvm, sysfs)    *)
(* aborts the run; the run is never ended by a panic.                      *)
(***************************************************************************)
C5_ProbeFailuresContained == phase = "panicked" => OsReleaseAbort

(***************************************************************************)
(* C6. The optional forest is always fully traversed: when the run has     *)
(* ended (other than by the /etc/os-release abort), BIOS memory map, TME   *)
(* Bypass and SEAM loader have each been evaluated and reported.           *)
(***************************************************************************)
C6_OptionalTraversed ==
    (Ended /\ ~OsReleaseAbort) =>
        \A n \in OptionalNodes : Evaluated(n) /\ Reported(n)

Range(f) == {f[i] : i \in DOMAIN f}

(***************************************************************************)
(* C7. OS distribution probe: whenever the OS-distro test is reported, it  *)
(* is OK exactly when the pretty name of /etc/os-release equals one of     *)
(* the entries of SUPPORTED_OSES.                                          *)
(***************************************************************************)
C7_CheckOs ==
    \A i \in Lines("report", OsDistro) :
        out[i].state = "OK" <=>
            get_os_pretty_name(host[OsRelease]).val \in Range(SUPPORTED_OSES)

Calls(fn) == {i \in 1..Len(out) : out[i].kind = "call" /\ out[i].fn = fn}
CalledFns == {out[i].fn : i \in {j \in 1..Len(out) : out[j].kind = "call"}}

(***************************************************************************)
(* C8 as claimed. Each probe is called at most once per run, counting the  *)
(* calls made from run closures and from post_run callbacks.               *)
(***************************************************************************)
C8_ProbeOnce == \A fn \in CalledFns : Cardinality(Calls(fn)) <= 1

\* how often a probe may be called in one run
MaxCalls(fn) ==
    CASE fn \in {"check_bios_tme_bypass", "get_os_pretty_name"} -> 2
      [] fn = "Msr::read(0x982)" -> 4
      [] OTHER -> 1

(***************************************************************************)
(* C8 as amended. In one run every run closure and every post_run callback *)
(* is invoked at most once; check_bios_tme_bypass and get_os_pretty_name   *)
(* are called at most twice, both times by the same test (once from its    *)
(* run closure, once from its post_run); MSR 0x982 is read at most four    *)
(* times; every other probe is called at most once.                        *)
(***************************************************************************)
C8_ProbeAtMostTwice ==
    /\ \A n \in Nodes :
          /\ Cardinality(Lines("run", n)) <= 1
          /\ Cardinality(Lines("post_run", n)) <= 1
    /\ \A fn \in CalledFns :
          /\ Cardinality(Calls(fn)) <= MaxCalls(fn)
          /\ fn \in {"check_bios_tme_bypass", "get_os_pretty_name"} =>
                Cardinality({out[i].node : i \in Calls(fn)}) = 1

\* both probes were called a second time, from post_run
C8_Witness ==
    /\ Cardinality(Calls("check_bios_tme_bypass")) = 2
    /\ Cardinality(Calls("get_os_pretty_name")) = 2

ReportLines == {i \in 1..Len(out) : out[i].kind = "report"}
ManualReason == <<"Unable to check in program. Please check manually.">>

(***************************************************************************)
(* C9 as claimed. A result is printed red exactly when it is a FAIL of a   *)
(* Required and Program test; every non-OK result of a Manual test (a FAIL *)
(* included), every FAIL of an Optional test and every TBD is printed      *)
(* yellow; a Manual test's printed reason is the fixed instruction.        *)
(***************************************************************************)
C9_EmphasisClaimed ==
    \A i \in ReportLines :
        /\ out[i].color = "red" <=>
              /\ out[i].state = "FAIL"
              /\ out[i].optional_state = "Required"
              /\ out[i].operation = "Program"
        /\ (out[i].state # "OK" /\ out[i].operation = "Manual") =>
              out[i].color = "yellow" /\ out[i].reason = ManualReason
        /\ (out[i].state = "FAIL" /\ out[i].optional_state = "Optional") =>
              out[i].color = "yellow"
        /\ out[i].state = "TBD" => out[i].color = "yellow"

(***************************************************************************)
(* C9 as amended. A result is printed red exactly when it is a FAIL of a   *)
(* test that is Required or Manual (a Manual test whose state is FAIL is   *)
(* red, not yellow); a FAIL of an Optional Program test and every TBD are  *)
(* yellow; OK is green; the Reason line has the colour of the status line; *)
(* a non-OK Manual result is printed with the fixed instruction as reason. *)
(***************************************************************************)
C9_Emphasis ==
    \A i \in ReportLines :
        /\ out[i].color = "red" <=>
              /\ out[i].state = "FAIL"
              /\ out[i].optional_state = "Required" \/ out[i].operation = "Manual"
        /\ (out[i].state = "FAIL" /\ out[i].optional_state = "Optional"
              /\ out[i].operation = "Program") => out[i].color = "yellow"
        /\ out[i].state = "TBD" => out[i].color = "yellow"
        /\ out[i].state = "OK" => out[i].color = "green" /\ out[i].reason = << >>
        /\ out[i].reason # << >> => out[i].reason_color = out[i].color
        /\ (out[i].state # "OK" /\ out[i].operation = "Manual") =>
              out[i].reason = ManualReason

\* TME-MT (Required, Manual) was reported FAIL in red with the fixed reason
C9_Witness ==
    \E i \in Lines("report", TmeMt) :
        /\ out[i].state = "FAIL" /\ out[i].operation = "Manual"
        /\ out[i].color = "red" /\ out[i].reason = ManualReason

TdxChildren == {TdxModule, TmeEnabled, TmeMt, TdxKeySplit, SgxRegServer}
CpuTree == {CpuManuId, OsDistro, SgxEnabled, TdxEnabled} \cup TdxChildren

(***************************************************************************)
(* C10. Dependency chain of the required forest: after a FAIL at CPU       *)
(* vendor, OS distro, SGX enabled, TDX enabled and the five TDX children   *)
(* are skipped without evaluation; after a FAIL at TDX enabled (CPU        *)
(* vendor, OS distro and SGX enabled OK) the skipped tests of that tree    *)
(* are exactly the five TDX children, none of them evaluated; in both      *)
(* cases required_tests_passed, once bound, is false.                      *)
(***************************************************************************)
C10_DependencyChain ==
    /\ (Outcome(CpuManuId, "FAIL") /\ Matched(CpuManuId)) =>
          /\ \A d \in CpuTree \ {CpuManuId} : Skipped(d) /\ ~Evaluated(d)
          /\ required_tests_passed # << >> => required_tests_passed = <<FALSE>>
    /\ (/\ Outcome(TdxEnabled, "FAIL") /\ Matched(TdxEnabled)
        /\ Outcome(CpuManuId, "OK") /\ Outcome(OsDistro, "OK")
        /\ Outcome(SgxEnabled, "OK")) =>
          /\ {d \in CpuTree : Skipped(d)} = TdxChildren
          /\ \A d \in TdxChildren : ~Evaluated(d)
          /\ required_tests_passed # << >> => required_tests_passed = <<FALSE>>

\* TDX enabled failed below three passes, and run_test has returned
C10_Witness ==
    /\ Outcome(TdxEnabled, "FAIL") /\ Outcome(SgxEnabled, "OK")
    /\ Skipped(TdxModule) /\ Skipped(SgxRegServer)
    /\ required_tests_passed = <<FALSE>>


\* the entries of out that belong to test n, whatever their kind
EventsOf(n) ==
    {i \in 1..Len(out) :
        out[i].node = n /\ out[i].kind \in {"run", "call", "report", "post_run", "skip"}}

\* test n is between its report and the end of its post_run step
AtPostRun(n) == InBody(n) /\ pc = "post_run" /\ phase # "panicked"

(***************************************************************************)
(* C11. Per-node step order: for every test, the run closure is invoked at *)
(* most once and before the single report of its result; post_run, when    *)
(* the test has one, is invoked exactly once after the report, whatever    *)
(* the result (OK, FAIL, TBD), and a test without one gets none; nothing   *)
(* happens to a test below an evaluated test (run, report, post_run, SKIP  *)
(* line) before that test's own report and its own post_run.               *)
(***************************************************************************)
C11_StepOrder ==
    \A n \in Nodes :
        /\ Cardinality(Lines("run", n)) <= 1
        /\ Cardinality(Lines("report", n)) <= 1
        /\ \A r \in Lines("report", n) : \E e \in Lines("run", n) : e < r
        /\ \A p \in Lines("post_run", n) :
              has_post_run(n) /\ \E r \in Lines("report", n) : r < p
        /\ (has_post_run(n) /\ Reported(n) /\ ~AtPostRun(n)) =>
              Cardinality(Lines("post_run", n)) = 1
        /\ Evaluated(n) => \A d \in Descendants(n) : \A j \in EventsOf(d) :
              /\ \E r \in Lines("report", n) : r < j
              /\ has_post_run(n) => \E p \in Lines("post_run", n) : p < j

\* post_run ran after a FAIL (OS distro, before its sub-tests were skipped),
\* after a TBD (BIOS memory map) and after an OK (TME Bypass)
C11_Witness ==
    /\ Outcome(OsDistro, "FAIL") /\ Lines("post_run", OsDistro) # {}
    /\ Skipped(SgxEnabled)
    /\ Outcome(BiosMemMap, "TBD") /\ Lines("post_run", BiosMemMap) # {}
    /\ Outcome(BiosTmeBypass, "OK") /\ Lines("post_run", BiosTmeBypass) # {}


\* depth-first, left-to-right pre-order of a forest
RECURSIVE PreOrder(_)
PreOrder(tests) ==
    IF tests = << >> THEN << >>
    ELSE <<Head(tests)>> \o PreOrder(sub_tests(Head(tests))) \o PreOrder(Tail(tests))

FullOrder == PreOrder(get_required_tests) \o PreOrder(get_optional_tests)

IsStatusLine(e) == e.kind \in {"report", "skip"}

\* the tests of the status lines printed so far (result or SKIP), in print order
LineNodes ==
    LET lines == SelectSeq(out, IsStatusLine)
    IN [i \in 1..Len(lines) |-> lines[i].node]

IsPrefix(s, t) == Len(s) <= Len(t) /\ SubSeq(t, 1, Len(s)) = s

Ancestors(n) == {a \in Nodes : n \in Descendants(a)}

OptionalHeader ==
    {i \in 1..Len(out) :
        out[i].kind = "header" /\ out[i].node = "Optional Features & Settings"}

(***************************************************************************)
(* C12. Complete, ordered coverage: the status lines (result or SKIP)      *)
(* printed so far always follow the depth-first, left-to-right pre-order   *)
(* of the required forest and then of the optional forest, the optional    *)
(* ones after the optional header; when the run returns without an abort,  *)
(* every test has exactly one status line, a test was evaluated exactly    *)
(* when every test above it was OK (so a FAIL or TBD never stops a later   *)
(* sibling or a later top-level tree), and every other test has its SKIP   *)
(* line.                                                                   *)
(***************************************************************************)
C12_Coverage ==
    /\ IsPrefix(LineNodes, FullOrder)
    /\ \A n \in OptionalNodes : \A i \in EventsOf(n) :
          \E h \in OptionalHeader : h < i
    /\ \A n \in RequiredNodes : \A i \in EventsOf(n) :
          \A h \in OptionalHeader : i < h
    /\ phase = "exited" =>
          /\ LineNodes = FullOrder
          /\ \A n \in Nodes :
                /\ Evaluated(n) <=> \A a \in Ancestors(n) : Outcome(a, "OK")
                /\ Evaluated(n) <=> Reported(n)
                /\ Skipped(n) <=> ~Evaluated(n)

\* CPU vendor and the first KVM parameter failed; the KVM tree and the later
\* KVM sibling were evaluated all the same and the run returned
C12_Witness ==
    /\ phase = "exited"
    /\ Outcome(CpuManuId, "FAIL") /\ Skipped(SgxRegServer)
    /\ Outcome(KvmSupported, "OK") /\ Outcome(KvmSgxMod, "FAIL")
    /\ Evaluated(KvmTdxMod)
    /\ Outcome(BiosMemMap, "TBD") /\ Evaluated(BiosSeamLoader)

====
